---- MODULE Spec2Model ----
(***************************************************************************)
(* Model of log_parser.py: parse_logs reads a build log, finds every match *)
(* of                                                                      *)
(*     ^([^:]+):(\d+):(\d+):\s+error:\s+(.+)$      (re.MULTILINE)          *)
(* and prints one three-line record per distinct (file_path, line, msg).   *)
(* A text is a sequence of one-character strings; positions are 1-based.   *)
(***************************************************************************)
EXTENDS Integers, Sequences, FiniteSets, TLC

VARIABLES stdin, log_content, pc, pos, cur, seen, errors_found, out

vars == <<stdin, log_content, pc, pos, cur, seen, errors_found, out>>

\* ------------------------------------------------------------------------
\* Bounds of the checked input space
\* ------------------------------------------------------------------------

\* largest number of physical lines of an input text
MaxLines == 3

\* ------------------------------------------------------------------------
\* Character classes of the regular expression
\* ------------------------------------------------------------------------

NL == "\n"

\* \s and str.strip(): whitespace (the modelled alphabet has space and newline)
IsSpace(c) == c \in {" ", NL}

\* \d
IsDigit(c) == c \in {"0", "1", "2", "3", "4", "5", "6", "7", "8", "9"}

\* the literal  error:  of the pattern
ErrorLit == <<"e", "r", "r", "o", "r", ":">>

\* minimum repetitions of the \s+ before  error:
WsBeforeMin == 1

\* minimum repetitions of the \s+ after  error:
WsAfterMin == 1

\* ------------------------------------------------------------------------
\* Greedy runs: the position just after the longest run of a class from p
\* ------------------------------------------------------------------------

\* [^:]+  ('\n' is not a colon, so the run crosses line breaks)
RECURSIVE NonColonEnd(_, _)
NonColonEnd(t, p) ==
  IF p > Len(t) \/ t[p] = ":" THEN p ELSE NonColonEnd(t, p + 1)

\* \d+
RECURSIVE DigitEnd(_, _)
DigitEnd(t, p) ==
  IF p > Len(t) \/ ~IsDigit(t[p]) THEN p ELSE DigitEnd(t, p + 1)

\* \s+  ('\n' is whitespace, so the run crosses line breaks)
RECURSIVE SpaceEnd(_, _)
SpaceEnd(t, p) ==
  IF p > Len(t) \/ ~IsSpace(t[p]) THEN p ELSE SpaceEnd(t, p + 1)

\* .+  ('.' matches everything but '\n'); the run ends where $ matches
RECURSIVE LineEnd(_, _)
LineEnd(t, p) ==
  IF p > Len(t) \/ t[p] = NL THEN p ELSE LineEnd(t, p + 1)

\* a literal of the pattern at position p
HasLit(t, p, lit) ==
  /\ p + Len(lit) - 1 <= Len(t)
  /\ \A i \in 1..Len(lit) : t[p + i - 1] = lit[i]

\* ^ under re.MULTILINE
AtLineStart(t, p) == p = 1 \/ t[p - 1] = NL

IsChar(t, p, c) == p <= Len(t) /\ t[p] = c

\* ------------------------------------------------------------------------
\* The pattern, matched at position p with the severity literal lit.
\* Every quantifier but the last \s+ has one possible extent (the character
\* after a shorter run could not match what follows); the last \s+ gives
\* back whitespace, one character at a time, until (.+) has a character of
\* its line to take.
\* ------------------------------------------------------------------------

NoMatch == [ok |-> FALSE]

\* where (.+) starts when the \s+ after the literal (at q5) takes at most k
\* characters; 0 when no length from WsAfterMin to k lets (.+) match
RECURSIVE MsgStart(_, _, _)
MsgStart(t, q5, k) ==
  IF k < WsAfterMin THEN 0
  ELSE IF q5 + k <= Len(t) /\ t[q5 + k] # NL THEN q5 + k
  ELSE MsgStart(t, q5, k - 1)

\* the value of F at the value of e, with e evaluated once
Let(e, F(_)) == CHOOSE r \in {F(v) : v \in {e}} : TRUE

\* \s+(.+)$ from q5, the position after the literal
MatchTail(t, p, q1, q2, q3, q5) ==
  Let(MsgStart(t, q5, SpaceEnd(t, q5) - q5), LAMBDA s :
    IF s = 0 THEN NoMatch
    ELSE Let(LineEnd(t, s), LAMBDA e :
           [ok |-> TRUE, start |-> p, end |-> e,
            g1 |-> SubSeq(t, p, q1 - 1),
            g2 |-> SubSeq(t, q1 + 1, q2 - 1),
            g3 |-> SubSeq(t, q2 + 1, q3 - 1),
            g4 |-> SubSeq(t, s, e - 1)]))

\* :\s*<lit> from q3: the whitespace before the literal made optional
MatchSeverityOptionalWs(t, p, q1, q2, q3, lit) ==
  Let(SpaceEnd(t, q3 + 1), LAMBDA q4 :
    IF HasLit(t, q4, lit)
    THEN MatchTail(t, p, q1, q2, q3, q4 + Len(lit))
    ELSE NoMatch)

\* :\s+<lit> from q3, the colon after the column
MatchSeverity(t, p, q1, q2, q3, lit) ==
  Let(SpaceEnd(t, q3 + 1), LAMBDA q4 :
    IF q4 - (q3 + 1) >= WsBeforeMin /\ HasLit(t, q4, lit)
    THEN MatchTail(t, p, q1, q2, q3, q4 + Len(lit))
    ELSE NoMatch)

\* (\d+): from q2, the colon after the line number
MatchColumn(t, p, q1, q2, lit) ==
  Let(DigitEnd(t, q2 + 1), LAMBDA q3 :
    IF q3 > q2 + 1 /\ IsChar(t, q3, ":")
    THEN MatchSeverity(t, p, q1, q2, q3, lit)
    ELSE NoMatch)

\* (\d+): from q1, the colon after the file path
MatchLine(t, p, q1, lit) ==
  Let(DigitEnd(t, q1 + 1), LAMBDA q2 :
    IF q2 > q1 + 1 /\ IsChar(t, q2, ":")
    THEN MatchColumn(t, p, q1, q2, lit)
    ELSE NoMatch)

\* ^([^:]+): at p
MatchLitAt(t, p, lit) ==
  IF p <= Len(t) /\ AtLineStart(t, p)
  THEN Let(NonColonEnd(t, p), LAMBDA q1 :
         IF q1 > p /\ IsChar(t, q1, ":")
         THEN MatchLine(t, p, q1, lit)
         ELSE NoMatch)
  ELSE NoMatch

\* the pattern of parse_logs
MatchAt(t, p) == MatchLitAt(t, p, ErrorLit)

\* re.finditer: the start of the first match at or after position from,
\* 0 when there is none
RECURSIVE NextStart(_, _)
NextStart(t, from) ==
  IF from > Len(t) THEN 0
  ELSE IF MatchAt(t, from).ok THEN from
  ELSE NextStart(t, from + 1)

\* a scan that resumes where the match began
MatchEndStuck(m) == m.start

\* where the scan resumes after a match
MatchEnd(m) == m.end

\* ------------------------------------------------------------------------
\* str.strip() and the dedup key
\* ------------------------------------------------------------------------

RECURSIVE LStrip(_)
LStrip(s) == IF s # <<>> /\ IsSpace(s[1]) THEN LStrip(Tail(s)) ELSE s

RECURSIVE RStrip(_)
RStrip(s) ==
  IF s # <<>> /\ IsSpace(s[Len(s)])
  THEN RStrip(SubSeq(s, 1, Len(s) - 1))
  ELSE s

Strip(s) == RStrip(LStrip(s))

\* a key that keeps the column
KeyOfWithCol(m) == <<Strip(m.g1), m.g2, Strip(m.g4), m.g3>>

\* a key whose line number is normalised as int(line) would print it
KeyOfNumeric(m) ==
  <<Strip(m.g1),
    SelectSeq(m.g2, LAMBDA c : c # "0"),
    Strip(m.g4)>>

\* key = (file_path, line, msg)
KeyOf(m) == <<Strip(m.g1), m.g2, Strip(m.g4)>>

\* ------------------------------------------------------------------------
\* The printed lines (one sequence element per print call)
\* ------------------------------------------------------------------------

SepWidth == 40

FileLine(file_path, line) == <<"<page>", " ">> \o file_path \o <<":">> \o line

MsgLine(msg) == <<"<cross>", " ">> \o msg

SepLine == [i \in 1..SepWidth |-> "-"]

NoErrorsLine == <<"<check>", " ", "No compilation errors found in the input.">>

RecordLines(key) == <<FileLine(key[1], key[2]), MsgLine(key[3]), SepLine>>

\* ------------------------------------------------------------------------
\* Input texts: up to MaxLines physical lines joined by '\n'
\* ------------------------------------------------------------------------

Diag(path, ln, col, ws1, kw, ws2, msg) ==
  path \o <<":">> \o ln \o <<":">> \o col \o <<":">> \o ws1 \o kw \o ws2 \o msg

WarningLit == <<"w", "a", "r", "n", "i", "n", "g", ":">>

CapErrorLit == <<"E", "r", "r", "o", "r", ":">>

OtherLits == {WarningLit, CapErrorLit}

\* well-formed error lines: the line a:7:1 and its variants in one field
\* (another path, another spelling of the line number, another column)
PlainLines ==
  {Diag(p, l, c, <<" ">>, ErrorLit, <<" ">>, <<"m">>) :
     <<p, l, c>> \in {<<<<"a">>, <<"7">>, <<"1">>>>,
                      <<<<"b">>, <<"7">>, <<"1">>>>,
                      <<<<"a">>, <<"0", "7">>, <<"1">>>>,
                      <<<<"a">>, <<"7">>, <<"2">>>>}}

\* the line a:7:1 without whitespace on one side of  error:
TightLines ==
  {Diag(<<"a">>, <<"7">>, <<"1">>, <<>>, ErrorLit, <<" ">>, <<"m">>),
   Diag(<<"a">>, <<"7">>, <<"1">>, <<" ">>, ErrorLit, <<>>, <<"m">>)}

\* the line a:7 with padding around the path and the message
PaddedLines ==
  {Diag(<<" ", "a">>, <<"7">>, <<"2">>, <<" ">>, ErrorLit, <<" ", " ">>, <<"m", " ">>)}

SpacingLines == TightLines \cup PaddedLines

\* error lines with nothing but whitespace after  error:
EmptyMsgLines ==
  {Diag(<<"a">>, <<"7">>, <<"1">>, <<" ">>, ErrorLit, w2, <<>>) :
     w2 \in {<<>>, <<" ">>, <<" ", " ">>}}

\* the same shape with another severity keyword
OtherSeverityLines ==
  {Diag(<<"a">>, <<"7">>, <<"1">>, <<" ">>, kw, <<" ">>, <<"m">>) : kw \in OtherLits}

\* lines without a colon
PlainTextLines == {<<>>, <<"x">>}

LineSet ==
  PlainLines \cup SpacingLines \cup EmptyMsgLines \cup OtherSeverityLines
    \cup PlainTextLines

RECURSIVE Join(_)
Join(ls) ==
  IF Len(ls) = 0 THEN <<>>
  ELSE IF Len(ls) = 1 THEN ls[1]
  ELSE ls[1] \o <<NL>> \o Join(Tail(ls))

Texts ==
  {<<>>} \cup UNION {{Join(ls) : ls \in [1..n -> LineSet]} : n \in 1..MaxLines}

\* ------------------------------------------------------------------------
\* parse_logs
\* ------------------------------------------------------------------------

\* the text waiting on standard input is any of Texts; nothing is read yet
Init ==
  /\ stdin \in Texts
  /\ pc = "read"
  /\ log_content = <<>>
  /\ pos = 1
  /\ cur = NoMatch
  /\ seen = {}
  /\ errors_found = FALSE
  /\ out = <<>>

\* log_content = sys.stdin.read(); the iterator, seen and errors_found are set up
Read ==
  /\ pc = "read"
  /\ log_content' = stdin
  /\ pos' = 1
  /\ seen' = {}
  /\ errors_found' = FALSE
  /\ pc' = "iter"
  /\ UNCHANGED <<stdin, cur, out>>

\* for match in matches: the iterator yields the next match
ForNext ==
  /\ pc = "iter"
  /\ \E p \in {NextStart(log_content, pos)} :
       /\ p # 0
       /\ \E m \in {MatchAt(log_content, p)} :
            cur' = m /\ pos' = MatchEnd(m)
  /\ pc' = "body"
  /\ UNCHANGED <<stdin, log_content, seen, errors_found, out>>

\* for match in matches: the iterator is exhausted
ForExit ==
  /\ pc = "iter"
  /\ NextStart(log_content, pos) = 0
  /\ pc' = "tail"
  /\ UNCHANGED <<stdin, log_content, pos, cur, seen, errors_found, out>>

\* a body that collects the record without printing it
BodyNewDeferred ==
  /\ pc = "body"
  /\ KeyOf(cur) \notin seen
  /\ seen' = seen \cup {KeyOf(cur)}
  /\ errors_found' = TRUE
  /\ pc' = "iter"
  /\ UNCHANGED <<stdin, log_content, pos, cur, out>>

\* loop body, key not in seen
BodyNew ==
  /\ pc = "body"
  /\ KeyOf(cur) \notin seen
  /\ seen' = seen \cup {KeyOf(cur)}
  /\ errors_found' = TRUE
  /\ out' = out \o RecordLines(KeyOf(cur))
  /\ pc' = "iter"
  /\ UNCHANGED <<stdin, log_content, pos, cur>>

\* a body that prints the record of a key it has seen
BodyDupPrints ==
  /\ pc = "body"
  /\ KeyOf(cur) \in seen
  /\ out' = out \o RecordLines(KeyOf(cur))
  /\ pc' = "iter"
  /\ UNCHANGED <<stdin, log_content, pos, cur, seen, errors_found>>

\* loop body, key in seen
BodyDup ==
  /\ pc = "body"
  /\ KeyOf(cur) \in seen
  /\ pc' = "iter"
  /\ UNCHANGED <<stdin, log_content, pos, cur, seen, errors_found, out>>

\* a summary line printed whatever errors_found is
TailNoneAlways ==
  /\ pc = "tail"
  /\ out' = Append(out, NoErrorsLine)
  /\ pc' = "done"
  /\ UNCHANGED <<stdin, log_content, pos, cur, seen, errors_found>>

\* if not errors_found: print the summary line
TailNone ==
  /\ pc = "tail"
  /\ ~errors_found
  /\ out' = Append(out, NoErrorsLine)
  /\ pc' = "done"
  /\ UNCHANGED <<stdin, log_content, pos, cur, seen, errors_found>>

\* errors_found: parse_logs returns without the summary line
TailSome ==
  /\ pc = "tail"
  /\ errors_found
  /\ pc' = "done"
  /\ UNCHANGED <<stdin, log_content, pos, cur, seen, errors_found, out>>

Next ==
  \/ Read
  \/ ForNext
  \/ ForExit
  \/ BodyNew
  \/ BodyDup
  \/ TailNone
  \/ TailSome

Spec == Init /\ [][Next]_vars

\* single-threaded and synchronous: the interpreter always takes the next step
FairSpec == Spec /\ WF_vars(Next)

\* ------------------------------------------------------------------------
\* Vocabulary of the properties
\* ------------------------------------------------------------------------

\* all matches of a text, in the order re.finditer finds them
RECURSIVE MatchesFrom(_, _)
MatchesFrom(t, from) ==
  IF NextStart(t, from) = 0 THEN <<>>
  ELSE Let(NextStart(t, from), LAMBDA p :
         Let(MatchAt(t, p), LAMBDA m : <<m>> \o MatchesFrom(t, m.end)))

\* the dedup key as the specification states it
SpecKey(m) == <<Strip(m.g1), m.g2, Strip(m.g4)>>

SpecKeys(ms) == [i \in 1..Len(ms) |-> SpecKey(ms[i])]

\* the distinct elements of a sequence, in the order of first occurrence
RECURSIVE DistinctInOrder(_)
DistinctInOrder(ks) ==
  IF ks = <<>> THEN <<>>
  ELSE LET front == SubSeq(ks, 1, Len(ks) - 1)
           last == ks[Len(ks)]
       IN IF \E j \in 1..Len(front) : front[j] = last
          THEN DistinctInOrder(front)
          ELSE Append(DistinctInOrder(front), last)

\* the printed lines of a sequence of records
RECURSIVE Render(_)
Render(ks) ==
  IF ks = <<>> THEN <<>> ELSE RecordLines(Head(ks)) \o Render(Tail(ks))

IsRecordLine(l) == l # NoErrorsLine

\* the record lines of an output, the summary line left out
Records(o) == SelectSeq(o, IsRecordLine)

\* the physical lines of a text
RECURSIVE SplitLines(_)
SplitLines(t) ==
  LET e == LineEnd(t, 1)
  IN IF e = Len(t) + 1 THEN <<t>>
     ELSE <<SubSeq(t, 1, e - 1)>> \o SplitLines(SubSeq(t, e + 1, Len(t)))

\* the keys found by matching each physical line on its own, in order
RECURSIVE PerLineKeys(_)
PerLineKeys(ls) ==
  IF ls = <<>> THEN <<>>
  ELSE SpecKeys(MatchesFrom(Head(ls), 1)) \o PerLineKeys(Tail(ls))

\* s occurs in l as a contiguous run
Contains(l, s) ==
  \E i \in 1..(Len(l) - Len(s) + 1) : SubSeq(l, i, i + Len(s) - 1) = s

\* the matches the iterator has yielded so far
FoundSoFar ==
  SelectSeq(MatchesFrom(log_content, 1), LAMBDA m : m.end <= pos)

\* ------------------------------------------------------------------------
\* C1: when parse_logs has finished, the emitted records are the distinct
\* dedup keys (stripped file_path, line text, stripped message) of the
\* matches, each exactly once whatever the columns, in the order of each
\* key's first occurrence in the text.
\* ------------------------------------------------------------------------
C1_DistinctKeysInFirstOccurrenceOrder ==
  pc = "done" =>
    Records(out) =
      Render(DistinctInOrder(SpecKeys(MatchesFrom(log_content, 1))))

\* a key occurs twice with different columns, another key first occurs between
C1_Witness ==
  /\ pc = "done"
  /\ LET ms == MatchesFrom(log_content, 1)
     IN \E i, j, k \in 1..Len(ms) :
          /\ i < j /\ j < k
          /\ SpecKey(ms[i]) = SpecKey(ms[k])
          /\ ms[i].g3 # ms[k].g3
          /\ SpecKey(ms[j]) # SpecKey(ms[i])

\* ------------------------------------------------------------------------
\* C2: the final "No compilation errors found" line is emitted if and only
\* if no record was emitted: always for a text without a match (the empty
\* text included), never together with a record.
\* ------------------------------------------------------------------------
C2_SummaryIffNoRecords ==
  pc = "done" =>
    /\ (\E i \in 1..Len(out) : out[i] = NoErrorsLine) <=> Records(out) = <<>>
    /\ NextStart(log_content, 1) = 0 => out = <<NoErrorsLine>>

\* a non-empty text without a match has ended with the summary line alone
C2_Witness ==
  /\ pc = "done"
  /\ log_content # <<>>
  /\ NextStart(log_content, 1) = 0
  /\ out = <<NoErrorsLine>>

\* ------------------------------------------------------------------------
\* C8: processing a match whose key is already in the seen set changes
\* nothing: no line is emitted, the seen set, the found flag and the records
\* emitted before are unchanged.
\* ------------------------------------------------------------------------
C8_DuplicateHasNoEffect ==
  [][(pc = "body" /\ SpecKey(cur) \in seen) =>
       (out' = out /\ seen' = seen /\ errors_found' = errors_found)]_vars

\* the run met more matches than it has keys: a duplicate was processed
C8_Witness ==
  /\ pc = "iter"
  /\ Len(FoundSoFar) > Cardinality(seen)
  /\ out # <<>>

\* ------------------------------------------------------------------------
\* C10: the line number is compared and printed as the captured digits: two
\* matches with the same path and message whose line numbers differ as text
\* (07 and 7) are two records, each showing its line number as written.
\* ------------------------------------------------------------------------
C10_LineNumberIsText ==
  pc = "done" =>
    LET ms == MatchesFrom(log_content, 1)
    IN \A i, j \in 1..Len(ms) :
         (/\ Strip(ms[i].g1) = Strip(ms[j].g1)
          /\ Strip(ms[i].g4) = Strip(ms[j].g4)
          /\ ms[i].g2 # ms[j].g2)
         => \E a, b \in 1..Len(out) :
              /\ a # b
              /\ out[a] = FileLine(Strip(ms[i].g1), ms[i].g2)
              /\ out[b] = FileLine(Strip(ms[j].g1), ms[j].g2)

\* the text has the same error at line 07 and at line 7
C10_Witness ==
  /\ pc = "done"
  /\ LET ms == MatchesFrom(log_content, 1)
     IN \E i, j \in 1..Len(ms) :
          /\ Strip(ms[i].g1) = Strip(ms[j].g1)
          /\ Strip(ms[i].g4) = Strip(ms[j].g4)
          /\ ms[i].g2 = <<"0", "7">>
          /\ ms[j].g2 = <<"7">>

\* ------------------------------------------------------------------------
\* C3: every match lies within one physical line (the captured file path
\* and message hold no line break), so extracting over the whole block
\* emits the records that matching each physical line separately, in order
\* and with one shared seen set, emits.
\* ------------------------------------------------------------------------
C3_MatchesLieWithinOneLine ==
  /\ pc = "body" =>
       /\ \A i \in 1..Len(cur.g1) : cur.g1[i] # NL
       /\ \A i \in 1..Len(cur.g4) : cur.g4[i] # NL
  /\ pc = "done" =>
       Records(out) =
         Render(DistinctInOrder(PerLineKeys(SplitLines(log_content))))

\* ------------------------------------------------------------------------
\* C4: a line  path:L:C: error:  followed only by whitespace up to the end
\* of the line does not match, so an input that is this single line yields
\* no record and the no-errors outcome; no emitted record has an empty
\* message.
\* ------------------------------------------------------------------------
C4_NoEmptyMessage ==
  /\ pc = "body" => Strip(cur.g4) # <<>>
  /\ (pc = "done" /\ log_content \in EmptyMsgLines) => out = <<NoErrorsLine>>

\* ------------------------------------------------------------------------
\* C5 as stated: whitespace on both sides of  error:  is optional, so the
\* single line  a:7:1:error: m  or  a:7:1: error:m  produces the record that
\* a:7:1: error: m  produces.
\* ------------------------------------------------------------------------
C5_WhitespaceOptional ==
  (pc = "done" /\ log_content \in TightLines) =>
    out = RecordLines(<<<<"a">>, <<"7">>, <<"m">>>>)

\* ------------------------------------------------------------------------
\* C5 as amended: whitespace on both sides of  error:  is required.  An
\* input that is the single line  path:L:C:error: message  or
\* path:L:C: error:message  yields no record, only the summary line; the
\* same line with one or more whitespace characters on both sides yields the
\* record of its path, line and stripped message, however much whitespace
\* there is.
\* ------------------------------------------------------------------------
C5_WhitespaceRequired ==
  pc = "done" =>
    /\ log_content \in TightLines => out = <<NoErrorsLine>>
    /\ log_content \in PaddedLines \cup {Diag(<<"a">>, <<"7">>, <<"1">>, <<" ">>,
                                       ErrorLit, <<" ">>, <<"m">>)}
         => out = RecordLines(<<<<"a">>, <<"7">>, <<"m">>>>)

\* the single line without whitespace before  error:  has been processed
C5_Witness ==
  /\ pc = "done"
  /\ log_content = Diag(<<"a">>, <<"7">>, <<"1">>, <<>>, ErrorLit, <<" ">>, <<"m">>)
  /\ out = <<NoErrorsLine>>

\* ------------------------------------------------------------------------
\* C6: only the exact literal  error:  is the severity token: a line
\* path:L:C: warning: message  (or Error:, or another keyword) produces no
\* record and none of its text appears in an emitted record, wherever the
\* line stands in the text.
\* ------------------------------------------------------------------------
C6_OtherSeverityLeavesNoTrace ==
  pc = "done" =>
    LET ls == SplitLines(log_content)
    IN \A i \in 1..Len(ls) :
         ls[i] \in OtherSeverityLines =>
           \A j \in 1..Len(out) : ~Contains(out[j], ls[i])

C9_NoOutputBeforeScanEnds ==
  out # <<>> => NextStart(log_content, pos) = 0

\* ------------------------------------------------------------------------
\* C9 as amended: no output is produced before the entire input has been
\* read; the records are then emitted during the scan, each when its match
\* is processed: whenever the iterator is asked for the next match, the
\* output holds exactly the records of the matches found so far, so a
\* record can be emitted while later matches are still to be found.
\* ------------------------------------------------------------------------
C9_RecordsEmittedDuringScan ==
  /\ pc = "read" => out = <<>>
  /\ pc = "iter" => out = Render(DistinctInOrder(SpecKeys(FoundSoFar)))

\* a record has been emitted and a further match is still to be found
C9_Witness ==
  /\ pc = "iter"
  /\ out # <<>>
  /\ NextStart(log_content, pos) # 0

====
